---- MODULE Spec2Model ----
(***************************************************************************)
(* Model of package varint (src/encoding/varint/varint.go): the QUIC-style *)
(* variable-length integer codec Len / Append / Parse / Peek / Read /      *)
(* Write, and the callers in varint_benchmark_test.go.                     *)
(*                                                                         *)
(* A uint64 is a tuple of 8 bytes, most significant byte first, so that    *)
(* the full 64-bit width is kept: <<0,0,0,0,0,0,1,0>> is 256.  A []byte is *)
(* a sequence of numbers in 0..255.  The Go package's Len and Append are   *)
(* named VarintLen and VarintAppend here, because Sequences owns Len and   *)
(* Append.                                                                 *)
(***************************************************************************)
EXTENDS Integers, Sequences, FiniteSets, TLC

VARIABLES call, br, stream, wrote, got

vars == <<call, br, stream, wrote, got>>

----------------------------------------------------------------------------
(* Bounds of the model. *)

\* longest destination slice handed to Append
MaxDst == 2
\* longest run of bytes following the first byte of a decoder input
MaxTail == 8
\* most values written to the stream
MaxWrites == 3
\* latest WriteByte call a failing sink refuses
MaxFailAt == 9

\* copies of the encoding BenchmarkRead puts in its reader
RepeatCount == 100

----------------------------------------------------------------------------
(* Go's uint64 and byte arithmetic. *)

Pow2(n) == 2 ^ n

Zero64 == <<0, 0, 0, 0, 0, 0, 0, 0>>

\* uint64(b) for a byte b
U64(b) == <<0, 0, 0, 0, 0, 0, 0, b>>

\* byte(v) for a uint64 v: the low 8 bits
ByteOf(v) == v[8]

RECURSIVE BitAnd(_, _)
BitAnd(a, b) ==
    IF a = 0 \/ b = 0 THEN 0
    ELSE (a % 2) * (b % 2) + 2 * BitAnd(a \div 2, b \div 2)

RECURSIVE BitOr(_, _)
BitOr(a, b) ==
    IF a = 0 THEN b
    ELSE IF b = 0 THEN a
    ELSE (IF a % 2 = 1 \/ b % 2 = 1 THEN 1 ELSE 0) + 2 * BitOr(a \div 2, b \div 2)

\* v >> k on uint64, 0 <= k < 64
Shr64(v, k) ==
    LET q == k \div 8
        r == k % 8
    IN  [i \in 1..8 |->
            (IF i - q >= 1 THEN v[i - q] \div Pow2(r) ELSE 0)
          + (IF i - q - 1 >= 1 THEN (v[i - q - 1] % Pow2(r)) * Pow2(8 - r) ELSE 0)]

\* v << k on uint64, 0 <= k < 64; bits shifted past bit 63 are lost
Shl64(v, k) ==
    LET q == k \div 8
        r == k % 8
    IN  [i \in 1..8 |->
            (IF i + q <= 8 THEN (v[i + q] * Pow2(r)) % 256 ELSE 0)
          + (IF i + q + 1 <= 8 THEN v[i + q + 1] \div Pow2(8 - r) ELSE 0)]

\* a | b and a & b on uint64
Or64(a, b) == [i \in 1..8 |-> BitOr(a[i], b[i])]

And64(a, b) == [i \in 1..8 |-> BitAnd(a[i], b[i])]

\* a <= b on uint64
Le64(a, b) ==
    \/ a = b
    \/ \E i \in 1..8 : a[i] < b[i] /\ \A j \in 1..(i - 1) : a[j] = b[j]

----------------------------------------------------------------------------
(* Constants of the package. *)

Max == <<63, 255, 255, 255, 255, 255, 255, 255>>

maxVarInt1 == <<0, 0, 0, 0, 0, 0, 0, 63>>

maxVarInt2 == <<0, 0, 0, 0, 0, 0, 63, 255>>

maxVarInt4 == <<0, 0, 0, 0, 63, 255, 255, 255>>

maxVarInt8 == Max

\* the errors of package io, and no error
Nil == "nil"

EOF == "EOF"

ErrUnexpectedEOF == "unexpected EOF"

\* panic(&varintLengthError{Num: v}), and a normal return
NoPanic == [raised |-> FALSE, Num |-> Zero64]

varintLengthError(v) == [raised |-> TRUE, Num |-> v]

----------------------------------------------------------------------------
(* io.ByteReader and io.ByteWriter, as the callers supply them: an         *)
(* in-memory byte stream (bytes.Buffer, bytes.Reader) whose ReadByte takes *)
(* the next unread byte or fails with io.EOF, and whose WriteByte stores   *)
(* the byte, or, for a sink set to fail, refuses the failAt-th byte it is  *)
(* offered with failErr.  rcalls, wcalls and offered record the calls made.*)

NewBuffer(bytes) ==
    [data |-> bytes, rcalls |-> 0, wcalls |-> 0, offered |-> <<>>,
     failAt |-> 0, failErr |-> Nil]

FailingWriter(k, e) ==
    [data |-> <<>>, rcalls |-> 0, wcalls |-> 0, offered |-> <<>>,
     failAt |-> k, failErr |-> e]

ReadByte(r) ==
    IF r.data = <<>>
    THEN [byte |-> 0, err |-> EOF, r |-> [r EXCEPT !.rcalls = @ + 1]]
    ELSE [byte |-> Head(r.data), err |-> Nil,
          r |-> [r EXCEPT !.data = Tail(@), !.rcalls = @ + 1]]

WriteByte(w, c) ==
    IF w.wcalls + 1 = w.failAt
    THEN [err |-> w.failErr,
          w |-> [w EXCEPT !.wcalls = @ + 1, !.offered = Append(@, c)]]
    ELSE [err |-> Nil,
          w |-> [w EXCEPT !.wcalls = @ + 1, !.offered = Append(@, c),
                          !.data = Append(@, c)]]

----------------------------------------------------------------------------
(* The package. *)

\* Mutant of VarintLen: the second case shifts by 15, not 14.
VarintLen_shift15(v) ==
    IF Shr64(v, 6) = Zero64 THEN [n |-> 1, panic |-> NoPanic]
    ELSE IF Shr64(v, 15) = Zero64 THEN [n |-> 2, panic |-> NoPanic]
    ELSE IF Shr64(v, 30) = Zero64 THEN [n |-> 4, panic |-> NoPanic]
    ELSE IF Shr64(v, 62) = Zero64 THEN [n |-> 8, panic |-> NoPanic]
    ELSE [n |-> 0, panic |-> varintLengthError(v)]

\* func Len(v uint64) int
VarintLen(v) ==
    IF Shr64(v, 6) = Zero64 THEN [n |-> 1, panic |-> NoPanic]
    ELSE IF Shr64(v, 14) = Zero64 THEN [n |-> 2, panic |-> NoPanic]
    ELSE IF Shr64(v, 30) = Zero64 THEN [n |-> 4, panic |-> NoPanic]
    ELSE IF Shr64(v, 62) = Zero64 THEN [n |-> 8, panic |-> NoPanic]
    ELSE [n |-> 0, panic |-> varintLengthError(v)]

\* The bytes Append and Write emit for v in each of the four cases.
Enc1(v) == <<ByteOf(v)>>

Enc2(v) ==
    << BitOr(ByteOf(And64(Shr64(v, 8), U64(63))), 64),
       ByteOf(v) >>

\* Mutant of Enc4: the three low bytes least significant first.
Enc4_littleEndian(v) ==
    << BitOr(ByteOf(And64(Shr64(v, 24), U64(63))), 128),
       ByteOf(v),
       ByteOf(Shr64(v, 8)),
       ByteOf(Shr64(v, 16)) >>

Enc4(v) ==
    << BitOr(ByteOf(And64(Shr64(v, 24), U64(63))), 128),
       ByteOf(Shr64(v, 16)),
       ByteOf(Shr64(v, 8)),
       ByteOf(v) >>

Enc8(v) ==
    << BitOr(ByteOf(And64(Shr64(v, 56), U64(63))), 192),
       ByteOf(Shr64(v, 48)),
       ByteOf(Shr64(v, 40)),
       ByteOf(Shr64(v, 32)),
       ByteOf(Shr64(v, 24)),
       ByteOf(Shr64(v, 16)),
       ByteOf(Shr64(v, 8)),
       ByteOf(v) >>

\* Mutant of VarintAppend: the first case tests v < _maxVarInt1.
VarintAppend_strictBound(dst, v) ==
    IF Le64(v, maxVarInt1) /\ v # maxVarInt1
    THEN [returned |-> TRUE, ret |-> dst \o Enc1(v), panic |-> NoPanic]
    ELSE IF Le64(v, maxVarInt2)
    THEN [returned |-> TRUE, ret |-> dst \o Enc2(v), panic |-> NoPanic]
    ELSE IF Le64(v, maxVarInt4)
    THEN [returned |-> TRUE, ret |-> dst \o Enc4(v), panic |-> NoPanic]
    ELSE IF Le64(v, maxVarInt8)
    THEN [returned |-> TRUE, ret |-> dst \o Enc8(v), panic |-> NoPanic]
    ELSE [returned |-> FALSE, ret |-> <<>>, panic |-> varintLengthError(v)]

\* func Append(dst []byte, v uint64) []byte.  returned is FALSE when the
\* call panics and so returns no slice.
VarintAppend(dst, v) ==
    IF Le64(v, maxVarInt1)
    THEN [returned |-> TRUE, ret |-> dst \o Enc1(v), panic |-> NoPanic]
    ELSE IF Le64(v, maxVarInt2)
    THEN [returned |-> TRUE, ret |-> dst \o Enc2(v), panic |-> NoPanic]
    ELSE IF Le64(v, maxVarInt4)
    THEN [returned |-> TRUE, ret |-> dst \o Enc4(v), panic |-> NoPanic]
    ELSE IF Le64(v, maxVarInt8)
    THEN [returned |-> TRUE, ret |-> dst \o Enc8(v), panic |-> NoPanic]
    ELSE [returned |-> FALSE, ret |-> <<>>, panic |-> varintLengthError(v)]

\* The loop of Parse: for i := 1; i < length; i++ { value = value<<8 | b[i] }
\* (Go's b[i] is b[i + 1] here).
RECURSIVE ParseLoop(_, _, _, _)
ParseLoop(b, i, length, value) ==
    IF i < length
    THEN ParseLoop(b, i + 1, length, Or64(Shl64(value, 8), U64(b[i + 1])))
    ELSE value

\* Mutant of Parse: the tag bits of the first byte are not masked off.
Parse_noMask(b) ==
    IF Len(b) = 0
    THEN [value |-> Zero64, consumed |-> 0, err |-> EOF]
    ELSE LET first == b[1]
             length == Pow2(first \div Pow2(6))
         IN  IF Len(b) < length
             THEN [value |-> Zero64, consumed |-> 0, err |-> ErrUnexpectedEOF]
             ELSE [value |-> ParseLoop(b, 1, length, U64(first)),
                   consumed |-> length, err |-> Nil]

\* Mutant of Parse: the length test is len(b) <= length.
Parse_offByOne(b) ==
    IF Len(b) = 0
    THEN [value |-> Zero64, consumed |-> 0, err |-> EOF]
    ELSE LET first == b[1]
             length == Pow2(first \div Pow2(6))
         IN  IF Len(b) <= length
             THEN [value |-> Zero64, consumed |-> 0, err |-> ErrUnexpectedEOF]
             ELSE [value |-> ParseLoop(b, 1, length, U64(BitAnd(first, 63))),
                   consumed |-> length, err |-> Nil]

\* func Parse(b []byte) (value uint64, consumed int, err error)
Parse(b) ==
    IF Len(b) = 0
    THEN [value |-> Zero64, consumed |-> 0, err |-> EOF]
    ELSE LET first == b[1]
             length == Pow2(first \div Pow2(6))
         IN  IF Len(b) < length
             THEN [value |-> Zero64, consumed |-> 0, err |-> ErrUnexpectedEOF]
             ELSE [value |-> ParseLoop(b, 1, length, U64(BitAnd(first, 63))),
                   consumed |-> length, err |-> Nil]

\* func Peek(b []byte) (uint64, error)
Peek(b) ==
    LET p == Parse(b)
    IN  [value |-> p.value, err |-> p.err]

\* Mutant of ReadBytes: one ReadByte call too many, its byte dropped.
RECURSIVE ReadBytes_oneMore(_, _)
ReadBytes_oneMore(r, n) ==
    LET x == ReadByte(r)
    IN  IF x.err # Nil
        THEN [bytes |-> <<>>, err |-> x.err, r |-> x.r]
        ELSE IF n = 0
        THEN [bytes |-> <<>>, err |-> Nil, r |-> x.r]
        ELSE LET rest == ReadBytes_oneMore(x.r, n - 1)
             IN  [bytes |-> <<x.byte>> \o rest.bytes, err |-> rest.err,
                  r |-> rest.r]

\* The chain of n ReadByte calls in a case of Read, each followed by
\* if err != nil { return 0, err }: the bytes read, the first error, the
\* source afterwards.
RECURSIVE ReadBytes(_, _)
ReadBytes(r, n) ==
    IF n = 0
    THEN [bytes |-> <<>>, err |-> Nil, r |-> r]
    ELSE LET x == ReadByte(r)
         IN  IF x.err # Nil
             THEN [bytes |-> <<>>, err |-> x.err, r |-> x.r]
             ELSE LET rest == ReadBytes(x.r, n - 1)
                  IN  [bytes |-> <<x.byte>> \o rest.bytes, err |-> rest.err,
                       r |-> rest.r]

\* Mutant of Read: in the 4-byte case b1 is shifted by 8, not 16.
Read_wrongShift(r) ==
    LET x0 == ReadByte(r)
        b0 == x0.byte
    IN  IF x0.err # Nil
        THEN [value |-> Zero64, err |-> x0.err, r |-> x0.r]
        ELSE IF b0 \div Pow2(6) = 0
        THEN [value |-> U64(BitAnd(b0, 63)), err |-> Nil, r |-> x0.r]
        ELSE IF b0 \div Pow2(6) = 1
        THEN LET x == ReadBytes(x0.r, 1)
             IN  IF x.err # Nil
                 THEN [value |-> Zero64, err |-> x.err, r |-> x.r]
                 ELSE [value |-> Or64(Shl64(U64(BitAnd(b0, 63)), 8),
                                      U64(x.bytes[1])),
                       err |-> Nil, r |-> x.r]
        ELSE IF b0 \div Pow2(6) = 2
        THEN LET x == ReadBytes(x0.r, 3)
             IN  IF x.err # Nil
                 THEN [value |-> Zero64, err |-> x.err, r |-> x.r]
                 ELSE [value |-> Or64(Shl64(U64(BitAnd(b0, 63)), 24),
                                 Or64(Shl64(U64(x.bytes[1]), 8),
                                 Or64(Shl64(U64(x.bytes[2]), 8),
                                      U64(x.bytes[3])))),
                       err |-> Nil, r |-> x.r]
        ELSE LET x == ReadBytes(x0.r, 7)
             IN  IF x.err # Nil
                 THEN [value |-> Zero64, err |-> x.err, r |-> x.r]
                 ELSE [value |-> Or64(Shl64(U64(BitAnd(b0, 63)), 56),
                                 Or64(Shl64(U64(x.bytes[1]), 48),
                                 Or64(Shl64(U64(x.bytes[2]), 40),
                                 Or64(Shl64(U64(x.bytes[3]), 32),
                                 Or64(Shl64(U64(x.bytes[4]), 24),
                                 Or64(Shl64(U64(x.bytes[5]), 16),
                                 Or64(Shl64(U64(x.bytes[6]), 8),
                                      U64(x.bytes[7])))))))),
                       err |-> Nil, r |-> x.r]

\* func Read(r io.ByteReader) (uint64, error)
Read(r) ==
    LET x0 == ReadByte(r)
        b0 == x0.byte
    IN  IF x0.err # Nil
        THEN [value |-> Zero64, err |-> x0.err, r |-> x0.r]
        ELSE IF b0 \div Pow2(6) = 0
        THEN [value |-> U64(BitAnd(b0, 63)), err |-> Nil, r |-> x0.r]
        ELSE IF b0 \div Pow2(6) = 1
        THEN LET x == ReadBytes(x0.r, 1)
             IN  IF x.err # Nil
                 THEN [value |-> Zero64, err |-> x.err, r |-> x.r]
                 ELSE [value |-> Or64(Shl64(U64(BitAnd(b0, 63)), 8),
                                      U64(x.bytes[1])),
                       err |-> Nil, r |-> x.r]
        ELSE IF b0 \div Pow2(6) = 2
        THEN LET x == ReadBytes(x0.r, 3)
             IN  IF x.err # Nil
                 THEN [value |-> Zero64, err |-> x.err, r |-> x.r]
                 ELSE [value |-> Or64(Shl64(U64(BitAnd(b0, 63)), 24),
                                 Or64(Shl64(U64(x.bytes[1]), 16),
                                 Or64(Shl64(U64(x.bytes[2]), 8),
                                      U64(x.bytes[3])))),
                       err |-> Nil, r |-> x.r]
        ELSE LET x == ReadBytes(x0.r, 7)
             IN  IF x.err # Nil
                 THEN [value |-> Zero64, err |-> x.err, r |-> x.r]
                 ELSE [value |-> Or64(Shl64(U64(BitAnd(b0, 63)), 56),
                                 Or64(Shl64(U64(x.bytes[1]), 48),
                                 Or64(Shl64(U64(x.bytes[2]), 40),
                                 Or64(Shl64(U64(x.bytes[3]), 32),
                                 Or64(Shl64(U64(x.bytes[4]), 24),
                                 Or64(Shl64(U64(x.bytes[5]), 16),
                                 Or64(Shl64(U64(x.bytes[6]), 8),
                                      U64(x.bytes[7])))))))),
                       err |-> Nil, r |-> x.r]

\* Mutant of WriteBytes: the error of a WriteByte call is not tested, only
\* the last call's error is returned.
RECURSIVE WriteBytes_ignoreErr(_, _)
WriteBytes_ignoreErr(w, bs) ==
    LET x == WriteByte(w, Head(bs))
    IN  IF Len(bs) = 1
        THEN [err |-> x.err, w |-> x.w]
        ELSE WriteBytes_ignoreErr(x.w, Tail(bs))

\* The chain of WriteByte calls in a case of Write: every byte but the last
\* is followed by if err != nil { return err }, and the last call's error is
\* the result.
RECURSIVE WriteBytes(_, _)
WriteBytes(w, bs) ==
    LET x == WriteByte(w, Head(bs))
    IN  IF Len(bs) = 1 \/ x.err # Nil
        THEN [err |-> x.err, w |-> x.w]
        ELSE WriteBytes(x.w, Tail(bs))

\* Mutant of Write: the 8-byte case is the default case, with no range test.
Write_noRangeCheck(w, v) ==
    LET push(bs) == [err |-> WriteBytes(w, bs).err, w |-> WriteBytes(w, bs).w,
                     panic |-> NoPanic]
    IN  IF Le64(v, maxVarInt1) THEN push(Enc1(v))
        ELSE IF Le64(v, maxVarInt2) THEN push(Enc2(v))
        ELSE IF Le64(v, maxVarInt4) THEN push(Enc4(v))
        ELSE push(Enc8(v))

\* func Write(w io.ByteWriter, v uint64) error
Write(w, v) ==
    LET push(bs) == [err |-> WriteBytes(w, bs).err, w |-> WriteBytes(w, bs).w,
                     panic |-> NoPanic]
    IN  IF Le64(v, maxVarInt1) THEN push(Enc1(v))
        ELSE IF Le64(v, maxVarInt2) THEN push(Enc2(v))
        ELSE IF Le64(v, maxVarInt4) THEN push(Enc4(v))
        ELSE IF Le64(v, maxVarInt8) THEN push(Enc8(v))
        ELSE [err |-> Nil, w |-> w, panic |-> varintLengthError(v)]

----------------------------------------------------------------------------
(* Inputs. *)

\* testValues of the benchmarks (0, 63, 64, 16383, 16384, 2^30-1, 2^30, Max)
testValues ==
    { Zero64,
      <<0, 0, 0, 0, 0, 0, 0, 63>>,
      <<0, 0, 0, 0, 0, 0, 0, 64>>,
      <<0, 0, 0, 0, 0, 0, 63, 255>>,
      <<0, 0, 0, 0, 0, 0, 64, 0>>,
      <<0, 0, 0, 0, 63, 255, 255, 255>>,
      <<0, 0, 0, 0, 64, 0, 0, 0>>,
      Max }

\* further values in range, with distinct bytes: 0x25, 0x1234, 0x12345678,
\* 0x0123456789ABCDEF, 0x100000000
MoreValues ==
    { <<0, 0, 0, 0, 0, 0, 0, 37>>,
      <<0, 0, 0, 0, 0, 0, 18, 52>>,
      <<0, 0, 0, 0, 18, 52, 86, 120>>,
      <<1, 35, 69, 103, 137, 171, 205, 239>>,
      <<0, 0, 0, 1, 0, 0, 0, 0>> }

InRange == testValues \cup MoreValues

\* values above Max: 2^62, 2^62 + 0x25, 2^63, 2^64 - 1
OutOfRange ==
    { <<64, 0, 0, 0, 0, 0, 0, 0>>,
      <<64, 0, 0, 0, 0, 0, 0, 37>>,
      <<128, 0, 0, 0, 0, 0, 0, 0>>,
      <<255, 255, 255, 255, 255, 255, 255, 255>> }

Values == InRange \cup OutOfRange

\* all sequences over S of length at most n
SeqsUpTo(S, n) == UNION { [1..k -> S] : k \in 0..n }

\* destination slices
DstBytes == {0, 195}

Dsts == SeqsUpTo(DstBytes, MaxDst)

\* decoder inputs: nothing, or a first byte (every tag, with low, mixed and
\* high payload bits) followed by at most MaxTail bytes
FirstBytes == {0, 37, 63, 64, 82, 127, 128, 154, 191, 192, 193, 255}

TailBytes == {0, 165}

Inputs ==
    {<<>>} \cup { <<f>> \o t : f \in FirstBytes, t \in SeqsUpTo(TailBytes, MaxTail) }

\* errors a failing sink returns
SinkErrs == {"short write", "closed pipe"}

----------------------------------------------------------------------------
(* Calls on the package, one at a time: call records the call made, its   *)
(* arguments and what it returned, until the caller is done with it.       *)

NoCall == [op |-> "none"]

Init ==
    /\ call = NoCall
    /\ br = <<>>
    /\ stream = <<>>
    /\ wrote = <<>>
    /\ got = <<>>

\* sinkInt = Len(v)
CallLen ==
    /\ call = NoCall
    /\ \E v \in Values :
          call' = [op |-> "Len", v |-> v, n |-> VarintLen(v).n,
                   panic |-> VarintLen(v).panic]
    /\ UNCHANGED <<br, stream, wrote, got>>

\* dst = Append(dst, v)
CallAppend ==
    /\ call = NoCall
    /\ \E dst \in Dsts, v \in Values :
          LET x == VarintAppend(dst, v)
          IN  call' = [op |-> "Append", dst |-> dst, v |-> v,
                       returned |-> x.returned, ret |-> x.ret,
                       panic |-> x.panic]
    /\ UNCHANGED <<br, stream, wrote, got>>

\* value, consumed, err = Parse(b)
CallParse ==
    /\ call = NoCall
    /\ \E b \in Inputs :
          LET x == Parse(b)
          IN  call' = [op |-> "Parse", b |-> b, value |-> x.value,
                       consumed |-> x.consumed, err |-> x.err]
    /\ UNCHANGED <<br, stream, wrote, got>>

\* value, err = Peek(b)
CallPeek ==
    /\ call = NoCall
    /\ \E b \in Inputs :
          LET x == Peek(b)
          IN  call' = [op |-> "Peek", b |-> b, value |-> x.value,
                       err |-> x.err]
    /\ UNCHANGED <<br, stream, wrote, got>>

\* value, err = Read(bytes.NewReader(b)); calls counts the ReadByte calls
\* made, rest is what the reader still holds
CallRead ==
    /\ call = NoCall
    /\ \E b \in Inputs :
          LET x == Read(NewBuffer(b))
          IN  call' = [op |-> "Read", b |-> b, value |-> x.value,
                       err |-> x.err, calls |-> x.r.rcalls, rest |-> x.r.data]
    /\ UNCHANGED <<br, stream, wrote, got>>

\* err = Write(w, v), w a sink that refuses the failAt-th byte with e
\* (failAt = 0: a sink that never fails); calls counts the WriteByte calls
\* made, offered the bytes they carried, data the bytes the sink took
CallWrite ==
    /\ call = NoCall
    /\ \E v \in Values, failAt \in 0..MaxFailAt, e \in SinkErrs :
          LET x == Write(FailingWriter(failAt, e), v)
          IN  call' = [op |-> "Write", v |-> v, failAt |-> failAt,
                       failErr |-> e, err |-> x.err, calls |-> x.w.wcalls,
                       offered |-> x.w.offered, data |-> x.w.data,
                       panic |-> x.panic]
    /\ UNCHANGED <<br, stream, wrote, got>>

\* BenchmarkParse: buf := Append(nil, v); value, consumed, err = Parse(buf)
BenchmarkParse ==
    /\ call = NoCall
    /\ \E v \in InRange :
          LET enc == VarintAppend(<<>>, v).ret
              x == Parse(enc)
          IN  call' = [op |-> "BenchmarkParse", v |-> v, buf |-> enc,
                       value |-> x.value, consumed |-> x.consumed,
                       err |-> x.err]
    /\ UNCHANGED <<br, stream, wrote, got>>

\* bytes.Repeat(data, n)
RECURSIVE Repeat(_, _)
Repeat(data, n) == IF n = 0 THEN <<>> ELSE data \o Repeat(data, n - 1)

\* BenchmarkRead, before the loop: data := Append(nil, v);
\* multiData := bytes.Repeat(data, 100); br := bytes.NewReader(multiData).
\* br is the reader's unread bytes; it lives until the benchmark returns.
BenchmarkReadSetup ==
    /\ call = NoCall
    /\ \E v \in InRange :
          LET data == VarintAppend(<<>>, v).ret
              multiData == Repeat(data, RepeatCount)
          IN  /\ call' = [op |-> "BenchmarkRead", v |-> v, data |-> data,
                          multiData |-> multiData, iterated |-> FALSE,
                          value |-> Zero64, err |-> Nil, calls |-> 0,
                          consumed |-> 0]
              /\ br' = multiData
    /\ UNCHANGED <<stream, wrote, got>>

\* BenchmarkRead, one iteration of the loop:
\* if br.Len() < 8 { br.Reset(multiData) }; sinkU64, err = Read(br);
\* if err != nil { b.Fatal(err) }.  b.Fatal ends the benchmark.
BenchmarkRead ==
    /\ call.op = "BenchmarkRead"
    /\ call.err = Nil
    /\ LET from == IF Len(br) < 8 THEN call.multiData ELSE br
           x == Read(NewBuffer(from))
       IN  /\ call' = [call EXCEPT !.iterated = TRUE, !.value = x.value,
                                   !.err = x.err, !.calls = x.r.rcalls,
                                   !.consumed = Len(from) - Len(x.r.data)]
           /\ br' = x.r.data
    /\ UNCHANGED <<stream, wrote, got>>

\* the caller drops the results; the next call starts afresh
Done ==
    /\ call # NoCall
    /\ call' = NoCall
    /\ br' = <<>>
    /\ UNCHANGED <<stream, wrote, got>>

Next ==
    \/ CallLen
    \/ CallAppend
    \/ CallParse
    \/ CallPeek
    \/ CallRead
    \/ CallWrite
    \/ BenchmarkParse
    \/ BenchmarkReadSetup
    \/ BenchmarkRead
    \/ Done

Spec == Init /\ [][Next]_vars

----------------------------------------------------------------------------
(* One stream used by a client of the package: values written to a        *)
(* never-failing FIFO byte buffer (a bytes.Buffer) by successive Write     *)
(* calls and read back from it by successive Read calls.  stream is the    *)
(* buffer's unread bytes, wrote the values written, got the values read.   *)

\* err = Write(&stream, v)
StreamWrite(v) ==
    /\ Len(wrote) < MaxWrites
    /\ LET x == Write(NewBuffer(stream), v)
       IN  /\ stream' = x.w.data
           /\ wrote' = Append(wrote, v)
           /\ call' = [op |-> "StreamWrite", v |-> v, err |-> x.err,
                       calls |-> x.w.wcalls]
    /\ UNCHANGED <<br, got>>

\* value, err = Read(&stream)
StreamRead ==
    /\ LET x == Read(NewBuffer(stream))
       IN  /\ stream' = x.r.data
           /\ got' = IF x.err = Nil THEN Append(got, x.value) ELSE got
           /\ call' = [op |-> "StreamRead", value |-> x.value, err |-> x.err,
                       calls |-> x.r.rcalls,
                       consumed |-> Len(stream) - Len(x.r.data)]
    /\ UNCHANGED <<br, wrote>>

NextStream ==
    \/ \E v \in InRange : StreamWrite(v)
    \/ StreamRead

SpecStream == Init /\ [][NextStream]_vars

----------------------------------------------------------------------------
(* The wire format, stated from the format table and not from the code.    *)

\* v fits the payload of the L-byte form (6, 14, 30, 62 bits)
Holds(v, L) == (\A i \in 1..(8 - L) : v[i] = 0) /\ v[9 - L] < 64

\* the length code of the L-byte form: log2(L)
LengthCode(L) == CASE L = 1 -> 0 [] L = 2 -> 1 [] L = 4 -> 2 [] L = 8 -> 3

\* the L-byte form of v: the code in the top two bits of byte 0, the most
\* significant 6 payload bits below it, the rest most significant byte first
Wire(v, L) ==
    [i \in 1..L |-> IF i = 1 THEN LengthCode(L) * 64 + (v[9 - L] % 64)
                    ELSE v[8 - L + i]]

\* the smallest of 1, 2, 4, 8 that holds v (v at most Max)
MinimalLen(v) == CHOOSE L \in {1, 2, 4, 8} :
    Holds(v, L) /\ \A K \in {1, 2, 4, 8} : Holds(v, K) => L <= K

\* the length the tag of a first byte declares
TagLength(first) ==
    IF first < 64 THEN 1 ELSE IF first < 128 THEN 2 ELSE IF first < 192 THEN 4 ELSE 8

----------------------------------------------------------------------------
(* Claims. *)

\* C1: round trip.  For every value v in [0, 2^62-1], Parse(Append(empty, v))
\* succeeds and returns (v, Len(v)): the decoded value is v and the consumed
\* count is Len(v), which is also the number of bytes Append produced.
C1_RoundTrip ==
    call.op = "BenchmarkParse" =>
        /\ call.err = Nil
        /\ call.value = call.v
        /\ call.consumed = VarintLen(call.v).n
        /\ call.consumed = Len(call.buf)

C1_Witness ==
    /\ call.op = "BenchmarkParse"
    /\ call.v = <<1, 35, 69, 103, 137, 171, 205, 239>>
    /\ call.value = call.v
    /\ call.consumed = 8

\* C2: for every dst and every v in [0, 2^62-1], Append(dst, v) returns dst
\* unchanged as a prefix followed by the wire-format encoding of v: L bytes,
\* L in {1,2,4,8}, the length code log2(L) in the top two bits of the first
\* byte, the most significant 6 payload bits of v in its low six bits, the
\* other L-1 bytes the rest of v most significant byte first; 63 encodes as
\* 0x3F and 2^62-1 as eight 0xFF bytes.
C2_AppendWireFormat ==
    (call.op = "Append" /\ call.v \in InRange) =>
        /\ call.returned
        /\ \E L \in {1, 2, 4, 8} :
              /\ Holds(call.v, L)
              /\ call.ret = call.dst \o Wire(call.v, L)
        /\ call.v = <<0, 0, 0, 0, 0, 0, 0, 63>> => call.ret = call.dst \o <<63>>
        /\ call.v = Max =>
              call.ret = call.dst \o <<255, 255, 255, 255, 255, 255, 255, 255>>

C2_Witness ==
    /\ call.op = "Append"
    /\ call.dst = <<195, 0>>
    /\ call.v = <<0, 0, 0, 0, 18, 52, 86, 120>>
    /\ call.ret = <<195, 0, 146, 52, 86, 120>>

\* C3: minimality.  For every v in [0, 2^62-1], Len(v) is the smallest of
\* {1,2,4,8} whose payload width holds v (1 up to 63, 2 for 64..16383, 4 for
\* 16384..1073741823, 8 for 1073741824..2^62-1), and the encoders agree with
\* it: Append(empty, v) has length Len(v), and Write pushes Len(v) bytes to a
\* sink that never fails.
C3_Minimality ==
    /\ (call.op = "Len" /\ call.v \in InRange) =>
          /\ ~call.panic.raised
          /\ call.n = MinimalLen(call.v)
          /\ call.v \in {Zero64, maxVarInt1} => call.n = 1
          /\ call.v \in {<<0, 0, 0, 0, 0, 0, 0, 64>>, maxVarInt2} => call.n = 2
          /\ call.v \in {<<0, 0, 0, 0, 0, 0, 64, 0>>, maxVarInt4} => call.n = 4
          /\ call.v \in {<<0, 0, 0, 0, 64, 0, 0, 0>>, Max} => call.n = 8
    /\ (call.op = "Append" /\ call.v \in InRange /\ call.dst = <<>>) =>
          Len(call.ret) = VarintLen(call.v).n
    /\ (call.op = "Write" /\ call.v \in InRange /\ call.failAt = 0) =>
          /\ call.calls = VarintLen(call.v).n
          /\ Len(call.data) = VarintLen(call.v).n

C3_Witness ==
    /\ call.op = "Len"
    /\ call.v = <<0, 0, 0, 0, 0, 0, 64, 0>>
    /\ call.n = 4

\* C6: the outcome of Parse(b) is decided by len(b) and byte 0.  With L the
\* length the tag of b[0] declares, Parse fails with the end-of-input error
\* iff b is empty and with the unexpected-end error iff 0 < len(b) < L, both
\* times returning value 0 and consumed 0; otherwise it succeeds with
\* consumed = L, never more than the tag declares, and a value that depends
\* only on the first L bytes of b.
C6_ParseOutcome ==
    call.op = "Parse" =>
        LET b == call.b
            L == IF b = <<>> THEN 0 ELSE TagLength(b[1])
        IN  /\ call.err \in {Nil, EOF, ErrUnexpectedEOF}
            /\ call.err = EOF <=> b = <<>>
            /\ call.err = ErrUnexpectedEOF <=> (0 < Len(b) /\ Len(b) < L)
            /\ call.err # Nil => call.value = Zero64 /\ call.consumed = 0
            /\ call.err = Nil =>
                  /\ call.consumed = L
                  /\ call.consumed <= Len(b)
                  /\ Parse(SubSeq(b, 1, L)).value = call.value
                  /\ Parse(SubSeq(b, 1, L)).consumed = call.consumed

C6_Witness ==
    /\ call.op = "Parse"
    /\ Len(call.b) = 7
    /\ call.b[1] = 193
    /\ call.err = ErrUnexpectedEOF
    /\ call.consumed = 0

\* C7: out of range.  For every v above 2^62-1, Len, Append and Write each
\* signal the out-of-range failure carrying v before producing any output:
\* Append returns no extended buffer, and Write makes no WriteByte call.
C7_OutOfRange ==
    /\ (call.op = "Len" /\ call.v \in OutOfRange) =>
          call.panic = [raised |-> TRUE, Num |-> call.v]
    /\ (call.op = "Append" /\ call.v \in OutOfRange) =>
          /\ call.panic = [raised |-> TRUE, Num |-> call.v]
          /\ ~call.returned
          /\ call.ret = <<>>
    /\ (call.op = "Write" /\ call.v \in OutOfRange) =>
          /\ call.panic = [raised |-> TRUE, Num |-> call.v]
          /\ call.calls = 0
          /\ call.offered = <<>>
          /\ call.data = <<>>

C7_Witness ==
    /\ call.op = "Write"
    /\ call.v = <<64, 0, 0, 0, 0, 0, 0, 0>>
    /\ call.panic.raised
    /\ call.calls = 0

\* C4, as claimed: each value has exactly one valid encoding.  Whenever
\* Parse(b) succeeds with (v, n), the first n bytes of b are Append(empty, v),
\* and likewise the bytes Read consumed: no oversized encoding of a value is
\* accepted.
C4_OneEncodingAccepted ==
    /\ (call.op = "Parse" /\ call.err = Nil) =>
          SubSeq(call.b, 1, call.consumed) = VarintAppend(<<>>, call.value).ret
    /\ (call.op = "Read" /\ call.err = Nil) =>
          SubSeq(call.b, 1, call.calls) = VarintAppend(<<>>, call.value).ret

\* C4, amended: the encoders emit one encoding per value, the minimal one,
\* but the decoders also accept the oversized forms.  Whenever Parse(b)
\* succeeds with (v, n), or Read succeeds with v after consuming n bytes of b,
\* n >= Len(v) and the first n bytes of b are the n-byte wire form of v; they
\* are Append(empty, v) exactly when n = Len(v).  So no two distinct byte
\* sequences of the same length are accepted as encodings of one value.
C4_OneEncodingPerLength ==
    /\ (call.op = "Parse" /\ call.err = Nil) =>
          LET v == call.value
              n == call.consumed
          IN  /\ n >= VarintLen(v).n
              /\ SubSeq(call.b, 1, n) = Wire(v, n)
              /\ SubSeq(call.b, 1, n) = VarintAppend(<<>>, v).ret
                    <=> n = VarintLen(v).n
    /\ (call.op = "Read" /\ call.err = Nil) =>
          LET v == call.value
              n == call.calls
          IN  /\ n >= VarintLen(v).n
              /\ SubSeq(call.b, 1, n) = Wire(v, n)
              /\ SubSeq(call.b, 1, n) = VarintAppend(<<>>, v).ret
                    <=> n = VarintLen(v).n

\* an oversized encoding accepted: 0x80 0x00 0x00 0xA5 parses as 165
C4_Witness ==
    /\ call.op = "Parse"
    /\ call.b = <<128, 0, 0, 165>>
    /\ call.err = Nil
    /\ call.value = <<0, 0, 0, 0, 0, 0, 0, 165>>
    /\ call.consumed = 4
    /\ VarintLen(call.value).n = 2

\* C5: Read over a source that signals exhaustion with the end-of-stream
\* error tells where the source ran out: exhausted before the first byte,
\* Read fails with the end-of-stream error; exhausted after the first byte
\* and before the L - 1 bytes its tag declares, Read fails with the
\* unexpected-end error, a different error.
C5_ReadTellsTruncation ==
    call.op = "Read" =>
        /\ call.b = <<>> => call.err = EOF
        /\ (call.b # <<>> /\ Len(call.b) < TagLength(call.b[1])) =>
              call.err = ErrUnexpectedEOF /\ call.err # EOF

\* C8: stream/slice equivalence.  For every b on which Parse(b) succeeds with
\* (v, n), Read over a source yielding the bytes of b in order returns v with
\* no error after exactly n ReadByte calls; so too for b = Append(empty, v),
\* every v in [0, 2^62-1].
C8_StreamSliceEquivalence ==
    /\ (call.op = "Read" /\ Parse(call.b).err = Nil) =>
          /\ call.err = Nil
          /\ call.value = Parse(call.b).value
          /\ call.calls = Parse(call.b).consumed
    /\ (call.op = "BenchmarkRead" /\ call.iterated) =>
          /\ call.err = Nil
          /\ call.value = Parse(call.data).value
          /\ call.value = call.v
          /\ call.calls = Parse(call.data).consumed
          /\ call.consumed = call.calls

C8_Witness ==
    /\ call.op = "Read"
    /\ Len(call.b) = 9
    /\ call.b[1] = 154
    /\ call.b[3] = 165
    /\ call.err = Nil
    /\ call.calls = 4

\* C9: for every v in [0, 2^62-1] and every sink, Write pushes the bytes of
\* Append(empty, v) one at a time in order and stops at the first WriteByte
\* that fails: if the k-th push fails, the sink has been offered exactly the
\* first k bytes, no call follows, and Write returns the sink's error
\* unchanged; if none fails, the sink receives Append(empty, v) and Write
\* returns no error.
C9_WriteStopsAtFailure ==
    (call.op = "Write" /\ call.v \in InRange) =>
        LET enc == VarintAppend(<<>>, call.v).ret
            k == call.failAt
        IN  IF k \in 1..Len(enc)
            THEN /\ call.err = call.failErr
                 /\ call.calls = k
                 /\ call.offered = SubSeq(enc, 1, k)
                 /\ call.data = SubSeq(enc, 1, k - 1)
            ELSE /\ call.err = Nil
                 /\ call.calls = Len(enc)
                 /\ call.offered = enc
                 /\ call.data = enc

C9_Witness ==
    /\ call.op = "Write"
    /\ call.v = <<1, 35, 69, 103, 137, 171, 205, 239>>
    /\ call.failAt = 3
    /\ call.err = "closed pipe"
    /\ call.offered = <<193, 35, 69>>

\* the encodings of a sequence of values, one after the other
RECURSIVE Encodings(_)
Encodings(vs) ==
    IF vs = <<>> THEN <<>>
    ELSE VarintAppend(<<>>, Head(vs)).ret \o Encodings(Tail(vs))

\* C10: sequencing over one stream.  Values v1..vn in [0, 2^62-1] written by
\* successive Write calls to a never-failing FIFO byte buffer are returned by
\* successive Read calls in the same order, each Read consuming exactly
\* Len(vi) bytes and no byte of the next value, and the Read after the last
\* value fails with the end-of-stream error having consumed nothing.
C10_Sequencing ==
    /\ Len(got) <= Len(wrote)
    /\ got = SubSeq(wrote, 1, Len(got))
    /\ stream = Encodings(SubSeq(wrote, Len(got) + 1, Len(wrote)))
    /\ call.op = "StreamWrite" => call.err = Nil
    /\ (call.op = "StreamRead" /\ call.err = Nil) =>
          /\ call.value = got[Len(got)]
          /\ call.consumed = VarintLen(call.value).n
          /\ call.calls = call.consumed
    /\ (call.op = "StreamRead" /\ call.err # Nil) =>
          /\ call.err = EOF
          /\ call.consumed = 0
          /\ got = wrote

C10_Witness ==
    /\ call.op = "StreamRead"
    /\ call.err = EOF
    /\ call.consumed = 0
    /\ Len(wrote) = 3
    /\ got = wrote
    /\ wrote[1] = <<0, 0, 0, 0, 0, 0, 18, 52>>
    /\ wrote[2] = <<0, 0, 0, 0, 0, 0, 0, 37>>
    /\ wrote[3] = <<0, 0, 0, 0, 18, 52, 86, 120>>

====
